---- MODULE Spec2Model ----
(***************************************************************************)
(* Model of the MPFB log service (src/src/mpfb/services/logservice.py):    *)
(* the registry _LogService with its Logger channels, the per-channel and  *)
(* combined log files and the persisted log_levels.json.                   *)
(***************************************************************************)
EXTENDS Integers, Sequences, FiniteSets, TLC

\* ---------------------------------------------------------------- bounds
\* Accepted messages per process (length bound of the combined file).
MaxLines == 2
\* Number of registry re-constructions (process restarts) explored.
MaxRestarts == 1

\* ------------------------------------------------------ program constants
CRASH == 0
ERROR == 1
WARN == 2
INFO == 3
DEBUG == 4
TRACE == 5
DUMP == 6
_JUSTIFICATION == 40
\* Mutant: the labels are not padded to five characters.
LOGLEVELS_unpadded == <<"CRASH", "ERROR", "WARN", "INFO", "DEBUG", "TRACE", "DUMP">>

LOGLEVELS == <<"CRASH", "ERROR", "WARN ", "INFO ", "DEBUG", "TRACE", "DUMP ">>

\* ------------------------------------------------------------ input sets
\* Channel names callers ask for; "default" is also the reserved key of the
\* overrides table.
Names == {"default", "a", "b"}
\* Levels callers pass to the registry operations (levels are not validated).
Levels == {1, 5}
\* Names and levels of the specification that interleaves messages.
LogNames == {"a", "b"}
LogLevels == {6}
\* Name and levels of the specification of the emitting methods.
EmitNames == {"a"}
AllLevels == -1 .. 7
\* Names of the restart specification.
RoundTripNames == {"default", "a"}
\* Names and filters of the listing specification.
ListNames == {"a.b", "a.c", "ab", "z"}
ListFilters == {"", "ALL", "a", "a.", "z"}
\* Names and levels of the specification with a failing file system.
FailNames == {"a"}
FailLevels == {1}

\* The threads that call the registry at the same time, and the names they
\* ask for.
Threads == {1, 2}
ThreadNames == {"a"}

\* A thread that has not called the registry.
Idle == [pc |-> "idle", name |-> "", made |-> 0, level |-> 0, got |-> 0]

\* Message texts.
Messages == {"x"}

\* A file that does not exist, and a file holding the given text.
NoFile == [exists |-> FALSE, text |-> {}]
File(text) == [exists |-> TRUE, text |-> text]
EmptyDict == <<>>

VARIABLES
    loggers,            \* _LogService._loggers: name -> Logger fields
    default_log_level,  \* _LogService._default_log_level
    level_overrides,    \* _LogService._level_overrides: key -> level
    config,             \* content of log_levels.json, or NoFile
    files,              \* content of separated.<name>.txt for the files on disk
    combined,           \* content of combined.txt
    truncs,             \* per file: how often this process opened it with "w"
    next_id,            \* identity handed to the next Logger object
    restarts,           \* number of registry re-constructions so far
    before,             \* default and channel levels at the last restart
    last,               \* the last call made: operation and arguments
    raised,             \* whether the last call raised instead of returning
    result,             \* the list the last listing call returned
    printed,            \* the lines Logger._log_message printed to stdout
    io,                 \* which files the file system refuses to open
    threads             \* per thread: its place in get_or_create_log_channel

vars == <<loggers, default_log_level, level_overrides, config, files,
          combined, truncs, next_id, restarts, before, last, raised, result,
          printed, io, threads>>

\* ---------------------------------------------------------------- helpers
Put(d, k, v) == [x \in (DOMAIN d) \cup {k} |-> IF x = k THEN v ELSE d[x]]

Call(op, name, level) == [op |-> op, name |-> name, level |-> level]

\* The call that constructs _LogService; its name field tells whether
\* os.path.exists(_CONFIG) held.
Construction(cfg) ==
    Call("__init__", IF cfg.exists THEN "config found" ELSE "no config", 0)

\* json.dump of a dict with string keys: the object's members.
json_dump(d) == {<<k, d[k]>> : k \in DOMAIN d}

\* json.load: the dict holding each member's value under its key.
json_load(text) ==
    [k \in {m[1] : m \in text} |-> (CHOOSE m \in text : m[1] = k)[2]]

\* Mutant: the level passed in is dropped for the default of the parameter.
Logger_at_constructor_default(name, level) ==
    [level |-> DEBUG, level_is_overridden |-> FALSE, id |-> next_id]

\* Logger.__init__: the fields of a fresh channel.
Logger(name, level) ==
    [level |-> level, level_is_overridden |-> FALSE, id |-> next_id]

\* Mutant: the level is set without marking the channel overridden.
SetLevel_unmarked(logger, level) == [logger EXCEPT !.level = level]

\* Logger.set_level applied to the fields of a channel.
SetLevel(logger, level) ==
    [logger EXCEPT !.level = level, !.level_is_overridden = TRUE]

\* Mutant: a new channel gets the default although an override is stored.
NewChannel_ignores_overrides(name) == Logger(name, default_log_level)

\* The channel get_or_create_log_channel constructs for an unknown name.
NewChannel(name) ==
    IF name \in DOMAIN level_overrides
    THEN SetLevel(Logger(name, default_log_level), level_overrides[name])
    ELSE Logger(name, default_log_level)

\* Mutant: a Logger is constructed even when the name is registered.
LoggersAfterGet_always_new(name) == Put(loggers, name, NewChannel(name))

\* _loggers after get_or_create_log_channel(name).
LoggersAfterGet(name) ==
    IF name \notin DOMAIN loggers
    THEN Put(loggers, name, NewChannel(name))
    ELSE loggers

\* Logger.path below the log directory.
path(name) == "separated." \o name \o ".txt"

\* Mutant: a channel file found on disk is kept as it is.
FilesAfterGet_keeps_stale(name) ==
    IF name \notin DOMAIN loggers /\ name \notin DOMAIN files
    THEN Put(files, name, <<>>)
    ELSE files

\* Files after get_or_create_log_channel(name): Logger.__init__ opens the
\* channel file with "w" and writes the empty string.
FilesAfterGet(name) ==
    IF name \notin DOMAIN loggers THEN Put(files, name, <<>>) ELSE files

TruncsAfterGet(name) ==
    IF name \notin DOMAIN loggers
    THEN Put(truncs, name, IF name \in DOMAIN truncs THEN truncs[name] + 1 ELSE 1)
    ELSE truncs

NextIdAfterGet(name) ==
    IF name \notin DOMAIN loggers THEN next_id + 1 ELSE next_id

\* ------------------------------------------------------------ construction
\* _LogService.__init__ run against the configuration file cfg: the values
\* of _default_log_level, _level_overrides and the configuration file after.
InitOverrides(cfg) ==
    IF cfg.exists THEN json_load(cfg.text) ELSE Put(EmptyDict, "default", INFO)

\* Mutant: the default stored in the file is not taken over.
InitDefault_ignores_file(cfg) == INFO

InitDefault(cfg) ==
    IF cfg.exists /\ "default" \in DOMAIN json_load(cfg.text)
    THEN json_load(cfg.text)["default"]
    ELSE INFO

InitConfig(cfg) ==
    IF cfg.exists THEN cfg ELSE File(json_dump(Put(EmptyDict, "default", INFO)))

\* Configuration files found at process start.
InitialConfigs ==
    {NoFile,
     File(json_dump(Put(EmptyDict, "default", 5))),
     File(json_dump(Put(Put(EmptyDict, "default", 1), "a", 5))),
     File(json_dump(Put(EmptyDict, "a", 1)))}

\* Channel files left on disk by an earlier run.
StaleLine == [label |-> "INFO ", message |-> "old", extra |-> "none"]
InitialFiles == {EmptyDict, Put(EmptyDict, "a", <<StaleLine>>)}

Init ==
    \E cfg \in InitialConfigs, old \in InitialFiles :
        /\ loggers = EmptyDict
        /\ default_log_level = InitDefault(cfg)
        /\ level_overrides = InitOverrides(cfg)
        /\ config = InitConfig(cfg)
        /\ files = old
        /\ combined = <<>>
        /\ truncs = Put(EmptyDict, "combined.txt", 1)
        /\ next_id = 1
        /\ restarts = 0
        /\ before = [default |-> INFO, levels |-> EmptyDict]
        /\ last = Construction(cfg)
        /\ raised = FALSE
        /\ result = <<>>
        /\ printed = <<>>
        /\ io = "ok"
        /\ threads = [t \in Threads |-> Idle]

\* ------------------------------------------------------------ environment
\* The files that cannot be opened for writing: none ("ok"), the channel
\* files, combined.txt or log_levels.json.
IoStates == {"ok", "channel", "combined", "config"}

\* The file system starts or stops refusing to open files for writing.
io_changes(state) ==
    /\ io # state
    /\ io' = state
    /\ last' = Call("io_changes", state, 0)
    /\ UNCHANGED <<loggers, default_log_level, level_overrides, config,
                   files, combined, truncs, next_id, restarts, before,
                   printed, raised, result, threads>>

\* Logger.__init__ raises for a new channel: open(self.path, "w") fails.
CreateFails(name) == name \notin DOMAIN loggers /\ io = "channel"

\* Whether rewrite_json raises: open(_CONFIG, "w") fails.
RewriteFails == io = "config"

\* The configuration file after rewrite_json has run with the given table.
rewrite_json(table) == IF RewriteFails THEN config ELSE File(json_dump(table))

\* --------------------------------------------------------------- registry
\* LogService.get_logger / _LogService.get_or_create_log_channel
get_logger(name) ==
    /\ last' = Call("get_logger", name, 0)
    /\ IF CreateFails(name)
       THEN /\ raised' = TRUE
            /\ UNCHANGED <<loggers, files, truncs, next_id>>
       ELSE /\ raised' = FALSE
            /\ loggers' = LoggersAfterGet(name)
            /\ files' = FilesAfterGet(name)
            /\ truncs' = TruncsAfterGet(name)
            /\ next_id' = NextIdAfterGet(name)
    /\ UNCHANGED <<default_log_level, level_overrides, config, combined,
                   restarts, before, printed, io, result, threads>>

\* Mutant: the new default is given to overridden channels as well.
set_default_log_level_all(level) ==
    /\ default_log_level' = level
    /\ level_overrides' = Put(level_overrides, "default", level)
    /\ loggers' = [n \in DOMAIN loggers |-> [loggers[n] EXCEPT !.level = level]]
    /\ config' = rewrite_json(level_overrides')
    /\ raised' = RewriteFails
    /\ last' = Call("set_default_log_level", "", level)
    /\ UNCHANGED <<files, combined, truncs, next_id, restarts, before,
                   printed, io, result, threads>>

\* _LogService.set_default_log_level
set_default_log_level(level) ==
    /\ default_log_level' = level
    /\ level_overrides' = Put(level_overrides, "default", level)
    /\ loggers' = [n \in DOMAIN loggers |->
                     IF ~loggers[n].level_is_overridden
                     THEN [loggers[n] EXCEPT !.level = level]
                     ELSE loggers[n]]
    /\ config' = rewrite_json(level_overrides')
    /\ raised' = RewriteFails
    /\ last' = Call("set_default_log_level", "", level)
    /\ UNCHANGED <<files, combined, truncs, next_id, restarts, before,
                   printed, io, result, threads>>

\* Mutant: the override is recorded but the file is not rewritten.
set_level_override_unsaved(logger_name, level) ==
    /\ last' = Call("set_level_override", logger_name, level)
    /\ IF CreateFails(logger_name)
       THEN /\ raised' = TRUE
            /\ UNCHANGED <<loggers, files, truncs, next_id, level_overrides,
                           config>>
       ELSE /\ loggers' = [LoggersAfterGet(logger_name) EXCEPT
                             ![logger_name] = SetLevel(@, level)]
            /\ files' = FilesAfterGet(logger_name)
            /\ truncs' = TruncsAfterGet(logger_name)
            /\ next_id' = NextIdAfterGet(logger_name)
            /\ level_overrides' = Put(level_overrides, logger_name, level)
            /\ raised' = FALSE
            /\ UNCHANGED config
    /\ UNCHANGED <<default_log_level, combined, restarts, before, printed,
                   io, result, threads>>

\* _LogService.set_level_override
set_level_override(logger_name, level) ==
    /\ last' = Call("set_level_override", logger_name, level)
    /\ IF CreateFails(logger_name)
       THEN /\ raised' = TRUE
            /\ UNCHANGED <<loggers, files, truncs, next_id, level_overrides,
                           config>>
       ELSE /\ loggers' = [LoggersAfterGet(logger_name) EXCEPT
                             ![logger_name] = SetLevel(@, level)]
            /\ files' = FilesAfterGet(logger_name)
            /\ truncs' = TruncsAfterGet(logger_name)
            /\ next_id' = NextIdAfterGet(logger_name)
            /\ level_overrides' = Put(level_overrides, logger_name, level)
            /\ config' = rewrite_json(level_overrides')
            /\ raised' = RewriteFails
    /\ UNCHANGED <<default_log_level, combined, restarts, before, printed,
                   io, result, threads>>

\* Mutant: the channels are reset but the table keeps the overrides.
reset_log_levels_keeps_table ==
    /\ default_log_level' = INFO
    /\ level_overrides' = Put(level_overrides, "default", INFO)
    /\ config' = rewrite_json(level_overrides')
    /\ raised' = RewriteFails
    /\ loggers' = IF RewriteFails THEN loggers
                  ELSE [n \in DOMAIN loggers |->
                          [loggers[n] EXCEPT !.level = INFO,
                                             !.level_is_overridden = FALSE]]
    /\ last' = Call("reset_log_levels", "", 0)
    /\ UNCHANGED <<files, combined, truncs, next_id, restarts, before,
                   printed, io, result, threads>>

\* Mutant: the levels are reset but the channels stay marked overridden.
reset_log_levels_keeps_mark ==
    /\ default_log_level' = INFO
    /\ level_overrides' = Put(EmptyDict, "default", INFO)
    /\ config' = rewrite_json(level_overrides')
    /\ raised' = RewriteFails
    /\ loggers' = IF RewriteFails THEN loggers
                  ELSE [n \in DOMAIN loggers |->
                          [loggers[n] EXCEPT !.level = INFO]]
    /\ last' = Call("reset_log_levels", "", 0)
    /\ UNCHANGED <<files, combined, truncs, next_id, restarts, before,
                   printed, io, result, threads>>

\* _LogService.reset_log_levels: rewrite_json runs before the loop over the
\* loggers, so the loop is not reached when it raises.
reset_log_levels ==
    /\ default_log_level' = INFO
    /\ level_overrides' = Put(EmptyDict, "default", INFO)
    /\ config' = rewrite_json(level_overrides')
    /\ raised' = RewriteFails
    /\ loggers' = IF RewriteFails THEN loggers
                  ELSE [n \in DOMAIN loggers |->
                          [loggers[n] EXCEPT !.level = INFO,
                                             !.level_is_overridden = FALSE]]
    /\ last' = Call("reset_log_levels", "", 0)
    /\ UNCHANGED <<files, combined, truncs, next_id, restarts, before,
                   printed, io, result, threads>>

\* Mutant: the level is assigned to every Logger object.
set_level_shared(name, level) ==
    /\ name \in DOMAIN loggers
    /\ loggers' = [n \in DOMAIN loggers |-> SetLevel(loggers[n], level)]
    /\ raised' = FALSE
    /\ last' = Call("set_level", name, level)
    /\ UNCHANGED <<default_log_level, level_overrides, config, files,
                   combined, truncs, next_id, restarts, before, printed, io,
                   result, threads>>

\* Logger.set_level called on a channel obtained from the registry
set_level(name, level) ==
    /\ name \in DOMAIN loggers
    /\ loggers' = [loggers EXCEPT ![name] = SetLevel(@, level)]
    /\ raised' = FALSE
    /\ last' = Call("set_level", name, level)
    /\ UNCHANGED <<default_log_level, level_overrides, config, files,
                   combined, truncs, next_id, restarts, before, printed, io,
                   result, threads>>

\* ----------------------------------------------------------------- Logger
\* The two lines Logger._log_message formats for an accepted message.
short_message(level, message, extra) ==
    [label |-> LOGLEVELS[level + 1], message |-> message, extra |-> extra]

long_message(name, level, message, extra) ==
    [label |-> LOGLEVELS[level + 1], location |-> name, message |-> message,
     extra |-> extra]

\* str.ljust
RECURSIVE ljust(_, _, _)
ljust(text, width, fill) ==
    IF Len(text) >= width THEN text ELSE ljust(text \o fill, width, fill)

\* The text written for a line: " " + str(extra_object) follows the message
\* unless the extra object is None.
extra_text(extra) == IF extra = "none" THEN "" ELSE " " \o extra

short_text(line) ==
    "[" \o line.label \o "] " \o line.message \o extra_text(line.extra)

long_text(line) ==
    "[" \o line.label \o "] " \o ljust(line.location \o " ", _JUSTIFICATION, ".")
        \o ": " \o line.message \o extra_text(line.extra)

\* Mutant: the comparison with the channel's level is strict.
Accepts_strict(name, level) == level < loggers[name].level

\* Whether Logger._log_message writes the message.
Accepts(name, level) == level <= loggers[name].level

\* Mutant: the file is opened with "w" for the write.
AppendLine_truncating(content, line) == <<line>>

\* open(path, "a") followed by write(line + "\n")
AppendLine(content, line) == Append(content, line)

\* Mutant: the line is printed after the two writes.
PrintLine_after_writes(line) ==
    IF io \in {"channel", "combined"} THEN printed ELSE Append(printed, line)

\* print(long_message), which comes before the files are opened.
PrintLine(line) == Append(printed, line)

\* Logger._log_message on the channel registered under name: the line is
\* printed, then appended to the channel file, then to the combined file; a
\* failing open raises and skips what follows it.
_log_message(name, level, message, extra) ==
    /\ IF Accepts(name, level)
       THEN /\ Len(printed) < MaxLines
            /\ printed' = PrintLine(long_message(name, level, message, extra))
            /\ files' = IF io = "channel" THEN files
                        ELSE [files EXCEPT ![name] =
                                AppendLine(@, short_message(level, message, extra))]
            /\ combined' =
                 IF io \in {"channel", "combined"} THEN combined
                 ELSE AppendLine(combined,
                                 long_message(name, level, message, extra))
            /\ raised' = (io \in {"channel", "combined"})
       ELSE /\ raised' = FALSE
            /\ UNCHANGED <<files, combined, printed>>
    /\ UNCHANGED <<loggers, default_log_level, level_overrides, config,
                   truncs, next_id, restarts, before, io, result, threads>>

crash(name, message) ==
    /\ name \in DOMAIN loggers
    /\ last' = Call("crash", name, CRASH)
    /\ _log_message(name, CRASH, message, "none")

error(name, message) ==
    /\ name \in DOMAIN loggers
    /\ last' = Call("error", name, ERROR)
    /\ _log_message(name, ERROR, message, "none")

warn(name, message) ==
    /\ name \in DOMAIN loggers
    /\ last' = Call("warn", name, WARN)
    /\ _log_message(name, WARN, message, "none")

info(name, message) ==
    /\ name \in DOMAIN loggers
    /\ last' = Call("info", name, INFO)
    /\ _log_message(name, INFO, message, "none")

debug(name, message) ==
    /\ name \in DOMAIN loggers
    /\ last' = Call("debug", name, DEBUG)
    /\ _log_message(name, DEBUG, message, "none")

trace(name, message) ==
    /\ name \in DOMAIN loggers
    /\ last' = Call("trace", name, TRACE)
    /\ _log_message(name, TRACE, message, "none")

\* Logger.dump: the serialized object follows a newline.
dump(name, message) ==
    /\ name \in DOMAIN loggers
    /\ last' = Call("dump", name, DUMP)
    /\ IF loggers[name].level > TRACE
       THEN _log_message(name, DUMP, message, "\nobject")
       ELSE /\ raised' = FALSE
            /\ UNCHANGED <<loggers, default_log_level, level_overrides,
                           config, files, combined, truncs, next_id, restarts,
                           before, printed, io, result, threads>>

\* Logger.enter: the message names the caller.
enter(name) ==
    /\ name \in DOMAIN loggers
    /\ last' = Call("enter", name, TRACE)
    /\ IF loggers[name].level >= TRACE
       THEN _log_message(name, TRACE, "Now entering caller", "none")
       ELSE /\ raised' = FALSE
            /\ UNCHANGED <<loggers, default_log_level, level_overrides,
                           config, files, combined, truncs, next_id, restarts,
                           before, printed, io, result, threads>>

\* Logger.time: the extra object is the elapsed time.
time(name, message) ==
    /\ name \in DOMAIN loggers
    /\ last' = Call("time", name, DEBUG)
    /\ _log_message(name, DEBUG, message, "elapsed")

\* ---------------------------------------------------------------- listings
\* ord() of the characters that occur in channel names.
Ord(c) ==
    CASE c = "." -> 46
      [] c = "A" -> 65
      [] c = "L" -> 76
      [] c = "a" -> 97
      [] c = "b" -> 98
      [] c = "c" -> 99
      [] c = "d" -> 100
      [] c = "e" -> 101
      [] c = "f" -> 102
      [] c = "l" -> 108
      [] c = "t" -> 116
      [] c = "u" -> 117
      [] c = "z" -> 122

\* s < t for Python strings: at the first position where they differ s has
\* the smaller character, or s ends there.
StrLess(s, t) ==
    \E i \in 1 .. (Len(s) + 1) :
        /\ i <= Len(t)
        /\ SubSeq(s, 1, i - 1) = SubSeq(t, 1, i - 1)
        /\ \/ i = Len(s) + 1
           \/ Ord(SubSeq(s, i, i)) < Ord(SubSeq(t, i, i))

\* list(self._loggers.keys()) followed by sort()
RECURSIVE sorted_names(_)
sorted_names(names) ==
    IF names = {} THEN <<>>
    ELSE LET first == CHOOSE n \in names :
                          \A o \in names : o = n \/ StrLess(n, o)
         IN  <<first>> \o sorted_names(names \ {first})

\* Mutant: the filter is looked for at the end of the name.
startswith_at_end(name, prefix) ==
    /\ Len(prefix) <= Len(name)
    /\ SubSeq(name, Len(name) - Len(prefix) + 1, Len(name)) = prefix

\* str.startswith
startswith(name, prefix) ==
    /\ Len(prefix) <= Len(name)
    /\ SubSeq(name, 1, Len(prefix)) = prefix

\* The loop of get_loggers_list_as_property_enum over the sorted names.
RECURSIVE list_loop(_, _, _, _)
list_loop(logger_names, log_filter, acc, current) ==
    IF logger_names = <<>> THEN acc
    ELSE LET name == Head(logger_names) IN
         IF log_filter = "" \/ startswith(name, log_filter)
         THEN list_loop(Tail(logger_names), log_filter,
                        Append(acc, <<name, name, name, current>>), current + 1)
         ELSE list_loop(Tail(logger_names), log_filter, acc, current)

\* Mutant: the filter has to be the name or be followed by "." in it.
loggers_list_whole_component(log_filter) ==
    list_loop(sorted_names({n \in DOMAIN loggers :
                               \/ log_filter \in {"ALL", ""}
                               \/ n = log_filter
                               \/ startswith(n, log_filter \o ".")}),
              "", << <<"default", "default", "the default log level", 0>> >>, 1)

\* The list _LogService.get_loggers_list_as_property_enum returns.
loggers_list(log_filter) ==
    list_loop(sorted_names(DOMAIN loggers),
              IF log_filter = "ALL" THEN "" ELSE log_filter,
              << <<"default", "default", "the default log level", 0>> >>, 1)

\* "." in name
HasDot(name) == \E i \in 1 .. Len(name) : SubSeq(name, i, i) = "."

\* Mutant: the name is not split.
category_whole_name(name) == name

\* str(name).split(".", 1)[0], or the name when it has no "."
category(name) ==
    IF ~HasDot(name) THEN name
    ELSE LET dot == CHOOSE i \in 1 .. Len(name) :
                       /\ SubSeq(name, i, i) = "."
                       /\ \A j \in 1 .. (i - 1) : SubSeq(name, j, j) # "."
         IN  SubSeq(name, 1, dot - 1)

\* The loop of get_loggers_categories_as_property_enum over the sorted names.
RECURSIVE categories_loop(_, _, _, _)
categories_loop(logger_names, category_names, categories, current) ==
    IF logger_names = <<>> THEN categories
    ELSE LET cat == category(Head(logger_names)) IN
         IF \A i \in 1 .. Len(category_names) : category_names[i] # cat
         THEN categories_loop(Tail(logger_names), Append(category_names, cat),
                              Append(categories, <<cat, cat, cat, current>>),
                              current + 1)
         ELSE categories_loop(Tail(logger_names), category_names, categories,
                              current)

\* The list _LogService.get_loggers_categories_as_property_enum returns.
categories_list ==
    categories_loop(sorted_names(DOMAIN loggers), <<>>,
        << <<"ALL", "(no filter)", "Do not filter: show all loggers", 0>> >>, 1)

\* LogService.get_loggers_list_as_property_enum
get_loggers_list_as_property_enum(log_filter) ==
    /\ result' = loggers_list(log_filter)
    /\ raised' = FALSE
    /\ last' = Call("get_loggers_list_as_property_enum", log_filter, 0)
    /\ UNCHANGED <<loggers, default_log_level, level_overrides, config,
                   files, combined, truncs, next_id, restarts, before,
                   printed, io, threads>>

\* LogService.get_loggers_categories_as_property_enum
get_loggers_categories_as_property_enum ==
    /\ result' = categories_list
    /\ raised' = FALSE
    /\ last' = Call("get_loggers_categories_as_property_enum", "", 0)
    /\ UNCHANGED <<loggers, default_log_level, level_overrides, config,
                   files, combined, truncs, next_id, restarts, before,
                   printed, io, threads>>

\* ------------------------------------------------------------------ threads
\* get_or_create_log_channel run by several threads. Nothing in the module
\* takes a lock, so a thread can be suspended between any two of the steps
\* below (Logger.__init__ opens a file, where threads are switched).

\* Thread t calls get_or_create_log_channel(name) and evaluates
\* "name not in self._loggers".
thread_check(t, name) ==
    /\ threads[t].pc = "idle"
    /\ threads' = [threads EXCEPT ![t] =
                     [@ EXCEPT !.name = name,
                               !.pc = IF name \notin DOMAIN loggers
                                      THEN "construct" ELSE "return"]]
    /\ last' = Call("get_or_create_log_channel", name, t)
    /\ UNCHANGED <<loggers, default_log_level, level_overrides, config,
                   files, combined, truncs, next_id, restarts, before,
                   raised, result, printed, io>>

\* Thread t evaluates Logger(name, self._default_log_level): a new object,
\* whose constructor truncates the channel file.
thread_construct(t) ==
    /\ threads[t].pc = "construct"
    /\ threads' = [threads EXCEPT ![t] =
                     [@ EXCEPT !.made = next_id,
                               !.level = default_log_level,
                               !.pc = "store"]]
    /\ next_id' = next_id + 1
    /\ files' = Put(files, threads[t].name, <<>>)
    /\ truncs' = Put(truncs, threads[t].name,
                     IF threads[t].name \in DOMAIN truncs
                     THEN truncs[threads[t].name] + 1 ELSE 1)
    /\ last' = Call("get_or_create_log_channel", threads[t].name, t)
    /\ UNCHANGED <<loggers, default_log_level, level_overrides, config,
                   combined, restarts, before, raised, result, printed, io>>

\* Thread t stores its object: self._loggers[name] = ...
thread_store(t) ==
    /\ threads[t].pc = "store"
    /\ loggers' = Put(loggers, threads[t].name,
                      [level |-> threads[t].level,
                       level_is_overridden |-> FALSE,
                       id |-> threads[t].made])
    /\ threads' = [threads EXCEPT ![t] = [@ EXCEPT !.pc = "override"]]
    /\ last' = Call("get_or_create_log_channel", threads[t].name, t)
    /\ UNCHANGED <<default_log_level, level_overrides, config, files,
                   combined, truncs, next_id, restarts, before, raised,
                   result, printed, io>>

\* Thread t applies the override of the name, if there is one, to the
\* object the registry holds under the name.
thread_override(t) ==
    /\ threads[t].pc = "override"
    /\ loggers' = IF threads[t].name \in DOMAIN level_overrides
                  THEN [loggers EXCEPT ![threads[t].name] =
                          SetLevel(@, level_overrides[threads[t].name])]
                  ELSE loggers
    /\ threads' = [threads EXCEPT ![t] = [@ EXCEPT !.pc = "return"]]
    /\ last' = Call("get_or_create_log_channel", threads[t].name, t)
    /\ UNCHANGED <<default_log_level, level_overrides, config, files,
                   combined, truncs, next_id, restarts, before, raised,
                   result, printed, io>>

\* Thread t returns self._loggers[name].
thread_return(t) ==
    /\ threads[t].pc = "return"
    /\ threads' = [threads EXCEPT ![t] =
                     [@ EXCEPT !.got = loggers[threads[t].name].id,
                               !.level = loggers[threads[t].name].level,
                               !.pc = "done"]]
    /\ last' = Call("get_or_create_log_channel", threads[t].name, t)
    /\ UNCHANGED <<loggers, default_log_level, level_overrides, config,
                   files, combined, truncs, next_id, restarts, before,
                   raised, result, printed, io>>

\* Thread t calls crash(message) on the object it was given.
thread_crash(t, message) ==
    /\ threads[t].pc = "done"
    /\ CRASH <= threads[t].level
    /\ Len(printed) < MaxLines
    /\ printed' = PrintLine(long_message(threads[t].name, CRASH, message, "none"))
    /\ files' = [files EXCEPT ![threads[t].name] =
                   AppendLine(@, short_message(CRASH, message, "none"))]
    /\ combined' = AppendLine(combined,
                       long_message(threads[t].name, CRASH, message, "none"))
    /\ last' = Call("crash", threads[t].name, t)
    /\ UNCHANGED <<loggers, default_log_level, level_overrides, config,
                   truncs, next_id, restarts, before, raised, result, io,
                   threads>>

\* A new process constructs _LogService against the files the old one left.
restart ==
    /\ restarts < MaxRestarts
    /\ before' = [default |-> default_log_level,
                  levels |-> [n \in DOMAIN loggers |-> loggers[n].level]]
    /\ loggers' = EmptyDict
    /\ default_log_level' = InitDefault(config)
    /\ level_overrides' = InitOverrides(config)
    /\ config' = InitConfig(config)
    /\ combined' = <<>>
    /\ truncs' = Put(EmptyDict, "combined.txt", 1)
    /\ next_id' = 1
    /\ restarts' = restarts + 1
    /\ printed' = <<>>
    /\ raised' = FALSE
    /\ result' = <<>>
    /\ last' = Construction(config)
    /\ UNCHANGED <<files, io, threads>>

\* ---------------------------------------------------------- specifications
\* The registry operations and Logger.set_level.
Next ==
    \/ \E n \in Names : get_logger(n)
    \/ \E l \in Levels : set_default_log_level(l)
    \/ \E n \in Names, l \in Levels : set_level_override(n, l)
    \/ reset_log_levels
    \/ \E n \in Names, l \in Levels : set_level(n, l)

Spec == Init /\ [][Next]_vars

\* The registry operations interleaved with messages on two channels.
NextLog ==
    \/ \E n \in LogNames : get_logger(n)
    \/ \E l \in LogLevels : set_default_log_level(l)
    \/ \E n \in LogNames, l \in LogLevels : set_level_override(n, l)
    \/ reset_log_levels
    \/ \E n \in LogNames, l \in LogLevels : set_level(n, l)
    \/ \E n \in LogNames, m \in Messages : crash(n, m)
    \/ \E n \in LogNames, m \in Messages : info(n, m)
    \/ \E n \in LogNames, m \in Messages : dump(n, m)

SpecLog == Init /\ [][NextLog]_vars

\* Every emitting method against every level a channel can be given.
NextEmit ==
    \/ \E n \in EmitNames : get_logger(n)
    \/ \E n \in EmitNames, l \in AllLevels : set_level(n, l)
    \/ \E n \in EmitNames, m \in Messages : crash(n, m)
    \/ \E n \in EmitNames, m \in Messages : error(n, m)
    \/ \E n \in EmitNames, m \in Messages : warn(n, m)
    \/ \E n \in EmitNames, m \in Messages : info(n, m)
    \/ \E n \in EmitNames, m \in Messages : debug(n, m)
    \/ \E n \in EmitNames, m \in Messages : trace(n, m)
    \/ \E n \in EmitNames, m \in Messages : dump(n, m)
    \/ \E n \in EmitNames : enter(n)
    \/ \E n \in EmitNames, m \in Messages : time(n, m)

SpecEmit == Init /\ [][NextEmit]_vars

\* Level changes through the registry, followed by a restart.
NextRoundTrip ==
    \/ \E n \in RoundTripNames : get_logger(n)
    \/ \E l \in Levels : set_default_log_level(l)
    \/ \E n \in RoundTripNames, l \in Levels : set_level_override(n, l)
    \/ restart

SpecRoundTrip == Init /\ [][NextRoundTrip]_vars

\* Channels are created and the two listings are taken.
NextList ==
    \/ \E n \in ListNames : get_logger(n)
    \/ \E f \in ListFilters : get_loggers_list_as_property_enum(f)
    \/ get_loggers_categories_as_property_enum

SpecList == Init /\ [][NextList]_vars

\* The registry and two emit methods on a file system that may refuse to
\* open the channel files, the combined file or the configuration file.
NextFail ==
    \/ \E state \in IoStates : io_changes(state)
    \/ \E n \in FailNames : get_logger(n)
    \/ \E l \in FailLevels : set_default_log_level(l)
    \/ \E n \in FailNames, l \in FailLevels : set_level_override(n, l)
    \/ reset_log_levels
    \/ \E n \in FailNames, m \in Messages : crash(n, m)
    \/ \E n \in FailNames, m \in Messages : info(n, m)

SpecFail == Init /\ [][NextFail]_vars

\* Two threads ask the registry for a channel and write to it.
NextThreads ==
    \/ \E t \in Threads, n \in ThreadNames : thread_check(t, n)
    \/ \E t \in Threads : thread_construct(t)
    \/ \E t \in Threads : thread_store(t)
    \/ \E t \in Threads : thread_override(t)
    \/ \E t \in Threads : thread_return(t)
    \/ \E t \in Threads, m \in Messages : thread_crash(t, m)

SpecThreads == Init /\ [][NextThreads]_vars

\* ------------------------------------------------------------------ claims
\* The content s of a file is still the beginning of its content t.
IsPrefix(s, t) == Len(s) <= Len(t) /\ SubSeq(t, 1, Len(s)) = s

\* What a call can change besides the record of the call itself.
observable == <<loggers, default_log_level, level_overrides, config, files,
                combined, truncs, next_id>>

\* C1: within a process every registered channel stays registered as the
\* same Logger object across every operation (so get_logger keeps returning
\* it), and get_logger for a registered name changes no state.
C1_IdentityStable ==
    [][last'.op # "__init__" =>
        /\ \A n \in DOMAIN loggers :
              n \in DOMAIN loggers' /\ loggers'[n].id = loggers[n].id
        /\ (last'.op = "get_logger" /\ last'.name \in DOMAIN loggers
              => observable' = observable)]_vars

\* C1 witness: get_logger was called for the channel created first, after a
\* second channel was created and a message was written.
C1_Witness ==
    /\ last.op = "get_logger"
    /\ last.name \in DOMAIN loggers
    /\ loggers[last.name].id = 1
    /\ next_id = 3
    /\ Len(combined) > 0

\* The severity each emitting method logs at.
SeverityOf(op) ==
    CASE op = "crash" -> 0
      [] op = "error" -> 1
      [] op = "warn" -> 2
      [] op = "info" -> 3
      [] op = "debug" -> 4
      [] op = "trace" -> 5
      [] op = "dump" -> 6
      [] op = "time" -> 4
      [] op = "enter" -> 5

EmitOps ==
    {"crash", "error", "warn", "info", "debug", "trace", "dump", "time", "enter"}

C3_DefaultReachesNonOverridden ==
    [][last'.op = "set_default_log_level" =>
        /\ default_log_level' = last'.level
        /\ DOMAIN loggers' = DOMAIN loggers
        /\ \A n \in DOMAIN loggers :
              IF loggers[n].level_is_overridden
              THEN /\ loggers'[n].level = loggers[n].level
                   /\ loggers'[n].level_is_overridden
              ELSE /\ loggers'[n].level = last'.level
                   /\ ~loggers'[n].level_is_overridden]_vars

\* C3 witness: after set_default_log_level(1) an overridden channel is at 5
\* and a channel that is not overridden is at 1.
C3_Witness ==
    /\ last.op = "set_default_log_level"
    /\ last.level = 1
    /\ \E n \in DOMAIN loggers :
          loggers[n].level_is_overridden /\ loggers[n].level = 5
    /\ \E n \in DOMAIN loggers :
          ~loggers[n].level_is_overridden /\ loggers[n].level = 1

\* C4: set_level_override(n, L) leaves channel n registered at level L,
\* marked overridden, with overrides[n] = L; and an overridden channel keeps
\* its level and its mark through set_default_log_level and every other call
\* except reset_log_levels, a new override of n or set_level on n.
C4_OverrideSticks ==
    [][/\ last'.op = "set_level_override" =>
            LET n == last'.name IN
            /\ n \in DOMAIN loggers'
            /\ loggers'[n].level = last'.level
            /\ loggers'[n].level_is_overridden
            /\ n \in DOMAIN level_overrides'
            /\ level_overrides'[n] = last'.level
       /\ \A n \in DOMAIN loggers :
            /\ loggers[n].level_is_overridden
            /\ last'.op \notin {"reset_log_levels", "__init__"}
            /\ ~(last'.op \in {"set_level_override", "set_level"}
                   /\ last'.name = n)
            => /\ n \in DOMAIN loggers'
               /\ loggers'[n].level = loggers[n].level
               /\ loggers'[n].level_is_overridden]_vars

\* C4 witness: the default was set to 1 and then to 5 while channel "a",
\* overridden at 1, kept its level.
C4_Witness ==
    /\ last.op = "set_default_log_level"
    /\ last.level = 5
    /\ "a" \in DOMAIN loggers
    /\ loggers["a"].level_is_overridden
    /\ loggers["a"].level = 1
    /\ "a" \in DOMAIN level_overrides
    /\ level_overrides["a"] = 1
    /\ \E n \in DOMAIN loggers : loggers[n].level = 5

\* C5: reset_log_levels leaves the overrides table equal to {"default": 3},
\* the default at 3 and every channel at 3 and not overridden, on the same
\* set of channels; a set_default_log_level(L) that follows gives L to every
\* channel.
C5_ResetRestoresInfo ==
    [][/\ last'.op = "reset_log_levels" =>
            /\ level_overrides' = Put(EmptyDict, "default", 3)
            /\ default_log_level' = 3
            /\ DOMAIN loggers' = DOMAIN loggers
            /\ \A n \in DOMAIN loggers' :
                  loggers'[n].level = 3 /\ ~loggers'[n].level_is_overridden
       /\ last.op = "reset_log_levels" /\ last'.op = "set_default_log_level" =>
            \A n \in DOMAIN loggers' : loggers'[n].level = last'.level]_vars

\* C5 witness: reset_log_levels ran with three channels registered.
C5_Witness ==
    /\ last.op = "reset_log_levels"
    /\ Cardinality(DOMAIN loggers) = 3
    /\ \A n \in DOMAIN loggers : loggers[n].level = 3

\* C6: a registry constructed from the configuration file the previous
\* process left has the previous default, and creates every channel the
\* previous process had with the level it had there.
C6_RoundTrip ==
    last.op = "__init__" /\ restarts > 0 =>
        /\ default_log_level = before.default
        /\ \A n \in DOMAIN before.levels :
              NewChannel(n).level = before.levels[n]

\* Lemma: the round trip holds when no channel is named "default".
C6_RoundTripOtherNames ==
    last.op = "__init__" /\ restarts > 0 /\ "default" \notin DOMAIN before.levels
        => C6_RoundTrip

\* C7: the overrides table has a "default" entry and it equals the default
\* level of the registry.
C7_DefaultEntryIsDefault ==
    /\ "default" \in DOMAIN level_overrides
    /\ level_overrides["default"] = default_log_level

\* C8: a channel created by get_logger has the current default and is not
\* overridden if its name is no key of the overrides table, and otherwise has
\* the level stored under its name and is overridden.
C8_NewChannelLevel ==
    [][last'.op = "get_logger" /\ last'.name \notin DOMAIN loggers =>
        LET n == last'.name IN
        /\ n \in DOMAIN loggers'
        /\ IF n \notin DOMAIN level_overrides
           THEN /\ loggers'[n].level = default_log_level
                /\ ~loggers'[n].level_is_overridden
           ELSE /\ loggers'[n].level = level_overrides[n]
                /\ loggers'[n].level_is_overridden]_vars

\* C8 witness: get_logger created a channel from an override loaded at
\* construction, after the default was changed to another level.
C8_Witness ==
    /\ last.op = "get_logger"
    /\ last.name \in DOMAIN loggers
    /\ last.name # "default"
    /\ loggers[last.name].id = next_id - 1
    /\ loggers[last.name].level_is_overridden
    /\ loggers[last.name].level # default_log_level
    /\ default_log_level # INFO
    /\ <<"default", default_log_level>> \in config.text

\* C9: every registered channel whose name is a key of the overrides table,
\* other than "default", is marked overridden.
C9_OverriddenMarked ==
    \A n \in DOMAIN loggers :
        n \in DOMAIN level_overrides /\ n # "default"
            => loggers[n].level_is_overridden

\* C9 witness: two channels with stored overrides are registered, one created
\* by get_logger.
C9_Witness ==
    /\ last.op = "get_logger"
    /\ last.name # "default"
    /\ last.name \in DOMAIN loggers
    /\ last.name \in DOMAIN level_overrides
    /\ \E n \in DOMAIN loggers :
          n \notin {last.name, "default"} /\ n \in DOMAIN level_overrides

\* C10: within a process the combined file and the file of every registered
\* channel only grow by appending, the file of a channel is empty when the
\* channel is created, and each of these files was opened for truncation
\* exactly once.
C10_AppendOnly ==
    [][last'.op # "__init__" =>
        /\ IsPrefix(combined, combined')
        /\ truncs'["combined.txt"] = 1
        /\ \A n \in DOMAIN loggers : IsPrefix(files[n], files'[n])
        /\ \A n \in DOMAIN loggers' \ DOMAIN loggers : files'[n] = <<>>
        /\ \A n \in DOMAIN loggers' : truncs'[n] = 1
        /\ \A n \in DOMAIN files \ DOMAIN loggers' : files'[n] = files[n]]_vars

\* C10 witness: a second line was appended to the file of a channel, and
\* another channel, whose file an earlier run left, was created since.
C10_Witness ==
    /\ last.op = "get_logger"
    /\ last.name = "a"
    /\ "a" \in DOMAIN loggers
    /\ loggers["a"].id = 2
    /\ files["a"] = <<>>
    /\ "b" \in DOMAIN files
    /\ Len(files["b"]) = 2
    /\ Len(combined) = 2

\* C11: channels of different names are different Logger objects with
\* different files, and set_level_override, set_level or a message on one
\* channel leaves level, mark and file of every other channel as they were.
C11_ChannelsIndependent ==
    [][/\ \A n1, n2 \in DOMAIN loggers' :
            n1 # n2 => /\ loggers'[n1].id # loggers'[n2].id
                       /\ path(n1) # path(n2)
       /\ last'.op \in {"set_level_override", "set_level"} \cup EmitOps =>
            \A n2 \in DOMAIN loggers \ {last'.name} :
                /\ loggers'[n2] = loggers[n2]
                /\ files'[n2] = files[n2]]_vars

\* C11 witness: channel "a" was overridden while channel "b", not
\* overridden at level 3, holds one line and "a" holds none.
C11_Witness ==
    /\ last.op = "set_level_override"
    /\ last.name = "a"
    /\ "b" \in DOMAIN loggers
    /\ loggers["b"].level = 3
    /\ ~loggers["b"].level_is_overridden
    /\ loggers["a"].level = 6
    /\ Len(files["b"]) = 1
    /\ files["a"] = <<>>

FreshAtInfo(n) ==
    /\ default_log_level = 3
    /\ loggers[n].level = 3
    /\ ~loggers[n].level_is_overridden
    /\ files[n] = <<>>

\* C13 as claimed: warn("x") on a fresh channel under default INFO is written
\* to the channel file and to the combined file as "[WARN ] x"; trace on that
\* channel is written to neither file.
C13_WarnScenario ==
    [][/\ last'.op = "warn" /\ FreshAtInfo(last'.name) =>
            /\ Len(files'[last'.name]) = 1
            /\ short_text(files'[last'.name][1]) = "[WARN ] x"
            /\ Len(combined') = Len(combined) + 1
            /\ long_text(combined'[Len(combined')]) = "[WARN ] x"
       /\ last'.op = "trace" /\ FreshAtInfo(last'.name) =>
            files' = files /\ combined' = combined]_vars

\* C13 amended: the line in the channel file is "[WARN ] x"; the line in the
\* combined file carries the channel name padded with "." to 40 characters
\* between the label and the message; trace is written to neither file.
C13_WarnScenarioAmended ==
    [][/\ last'.op = "warn" /\ FreshAtInfo(last'.name) =>
            /\ Len(files'[last'.name]) = 1
            /\ short_text(files'[last'.name][1]) = "[WARN ] x"
            /\ Len(combined') = Len(combined) + 1
            /\ IsPrefix(combined, combined')
            /\ long_text(combined'[Len(combined')]) =
                 "[WARN ] " \o last'.name \o " ......................................: x"
       /\ last'.op = "trace" /\ FreshAtInfo(last'.name) =>
            files' = files /\ combined' = combined]_vars

\* C13 witness: warn("x") was accepted by a channel at the default INFO.
C13_Witness ==
    /\ last.op = "warn"
    /\ default_log_level = 3
    /\ loggers[last.name].level = 3
    /\ ~loggers[last.name].level_is_overridden
    /\ files[last.name] = <<short_message(2, "x", "none")>>
    /\ Len(combined) = 1

\* C14: crash appends a line to the channel file and to the combined file
\* whatever the level of the channel is.
C14_CrashAlwaysRecorded ==
    [][last'.op = "crash" =>
        /\ Len(files'[last'.name]) = Len(files[last'.name]) + 1
        /\ Len(combined') = Len(combined) + 1]_vars

\* Lexicographic order of strings by character code.
RECURSIVE LexBefore(_, _)
LexBefore(s, t) ==
    IF t = "" THEN FALSE
    ELSE IF s = "" THEN TRUE
    ELSE IF Head(s) = Head(t) THEN LexBefore(Tail(s), Tail(t))
    ELSE Ord(Head(s)) < Ord(Head(t))

\* Name n begins with the characters of f.
BeginsWith(n, f) ==
    /\ Len(f) <= Len(n)
    /\ \A i \in 1 .. Len(f) : SubSeq(n, i, i) = SubSeq(f, i, i)

\* C15: the list of channel names has the entry "default" with index 0
\* first, followed by exactly the registered names that begin with the
\* filter (all of them for "ALL" and ""), in lexicographic order, with the
\* indices 1, 2, ...
C15_ListChannelNames ==
    last.op = "get_loggers_list_as_property_enum" =>
        LET f == last.name
            listed == IF f \in {"ALL", ""} THEN DOMAIN loggers
                      ELSE {n \in DOMAIN loggers : BeginsWith(n, f)}
        IN  /\ Len(result) = Cardinality(listed) + 1
            /\ result[1][1] = "default"
            /\ result[1][4] = 0
            /\ \A i \in 2 .. Len(result) :
                  result[i][1] \in listed /\ result[i][4] = i - 1
            /\ \A i, j \in 2 .. Len(result) :
                  i < j => LexBefore(result[i][1], result[j][1])

\* C15 witness: with all four channels registered, the filter "a" listed
\* "a.b", "a.c" and "ab" in this order and left out "z".
C15_Witness ==
    /\ last.op = "get_loggers_list_as_property_enum"
    /\ last.name = "a"
    /\ DOMAIN loggers = {"a.b", "a.c", "ab", "z"}
    /\ Len(result) = 4
    /\ result[2][1] = "a.b"
    /\ result[3][1] = "a.c"
    /\ result[4][1] = "ab"

\* The part of a channel name before its first ".", or the whole name.
CategoryOf(n) ==
    IF \A i \in 1 .. Len(n) : SubSeq(n, i, i) # "." THEN n
    ELSE CHOOSE c \in {SubSeq(n, 1, k) : k \in 0 .. (Len(n) - 1)} :
            /\ SubSeq(n, Len(c) + 1, Len(c) + 1) = "."
            /\ \A i \in 1 .. Len(c) : SubSeq(c, i, i) # "."

\* The first of the registered names, in lexicographic order, of category c.
FirstOf(c) ==
    CHOOSE n \in DOMAIN loggers :
        /\ CategoryOf(n) = c
        /\ \A o \in DOMAIN loggers :
              CategoryOf(o) = c => o = n \/ LexBefore(n, o)

\* C16: the list of categories has the entry "ALL" with index 0 first,
\* followed by one entry for each category of a registered name, without
\* duplicates, in the order in which the categories first occur among the
\* sorted names; for the channels "a.b", "a.c", "z" it is "ALL", "a", "z".
C16_ListCategories ==
    last.op = "get_loggers_categories_as_property_enum" =>
        LET cats == {CategoryOf(n) : n \in DOMAIN loggers} IN
        /\ Len(result) = Cardinality(cats) + 1
        /\ result[1][1] = "ALL"
        /\ result[1][4] = 0
        /\ \A i \in 2 .. Len(result) :
              result[i][1] \in cats /\ result[i][4] = i - 1
        /\ \A i, j \in 2 .. Len(result) :
              i < j => /\ result[i][1] # result[j][1]
                       /\ LexBefore(FirstOf(result[i][1]), FirstOf(result[j][1]))
        /\ DOMAIN loggers = {"a.b", "a.c", "z"} =>
              [i \in 1 .. Len(result) |-> result[i][1]] = <<"ALL", "a", "z">>

\* C16 witness: the categories were listed for the channels "a.b", "a.c"
\* and "z".
C16_Witness ==
    /\ last.op = "get_loggers_categories_as_property_enum"
    /\ DOMAIN loggers = {"a.b", "a.c", "z"}
    /\ Len(result) = 3

\* C17: an accepted message is printed to standard output whether or not
\* the channel file or the combined file can be written, and a write that
\* failed leaves what was written before it in place: when only the
\* combined file fails, the channel file still gains the short line.
C17_PrintedDespiteFailure ==
    [][last'.op \in {"crash", "info"}
       /\ SeverityOf(last'.op) <= loggers[last'.name].level =>
            /\ Len(printed') = Len(printed) + 1
            /\ IsPrefix(printed, printed')
            /\ long_text(printed'[Len(printed')]) =
                 "[" \o LOGLEVELS[SeverityOf(last'.op) + 1] \o "] "
                 \o last'.name \o " ......................................: x"
            /\ IsPrefix(files[last'.name], files'[last'.name])
            /\ IsPrefix(combined, combined')
            /\ io = "combined" =>
                 /\ raised'
                 /\ Len(files'[last'.name]) = Len(files[last'.name]) + 1
                 /\ combined' = combined]_vars

\* C17 witness: crash raised at the combined file after the line had been
\* printed and written to the channel file.
C17_Witness ==
    /\ last.op = "crash"
    /\ raised
    /\ io = "combined"
    /\ Len(printed) = 1
    /\ files[last.name] = <<short_message(CRASH, "x", "none")>>
    /\ combined = <<>>

\* C18: no emit method and no registry operation raises because a file
\* could not be opened.
C18_FailuresNeverAbort == ~raised

\* C19: the configuration file holds exactly the table of overrides.
C19_ConfigEqualsTable ==
    /\ config.exists
    /\ json_load(config.text) = level_overrides
    /\ \A n \in DOMAIN level_overrides :
          <<n, level_overrides[n]>> \in config.text

\* C19 witness: set_level_override has put a channel into the table and
\* into the file.
C19_Witness ==
    /\ last.op = "set_level_override"
    /\ last.name = "a"
    /\ "a" \in DOMAIN level_overrides
    /\ <<"a", level_overrides["a"]>> \in config.text
    /\ last.level = level_overrides["a"]

ShortLinesOf(n) ==
    LET OfChannel(line) == line.location = n
        own == SelectSeq(combined, OfChannel)
    IN  [i \in 1 .. Len(own) |->
            [label |-> own[i].label, message |-> own[i].message,
             extra |-> own[i].extra]]

\* The number of lines in the files of the channels in S.
RECURSIVE SumLines(_)
SumLines(S) ==
    IF S = {} THEN 0
    ELSE LET n == CHOOSE m \in S : TRUE
         IN  Len(files[n]) + SumLines(S \ {n})

\* C21: the combined file is the merge of the files of the registered
\* channels: it has as many lines as they have together, every line of it
\* belongs to a registered channel, and the lines of one channel are, in
\* the same order, the lines of that channel's file.
C21_CombinedIsMerge ==
    /\ Len(combined) = SumLines(DOMAIN loggers)
    /\ \A i \in 1 .. Len(combined) : combined[i].location \in DOMAIN loggers
    /\ \A n \in DOMAIN loggers : ShortLinesOf(n) = files[n]

\* C21 witness: channel "b" wrote a line and then channel "a".
C21_Witness ==
    /\ DOMAIN loggers = {"a", "b"}
    /\ Len(combined) = 2
    /\ combined[1].location = "b"
    /\ combined[2].location = "a"
    /\ Len(files["a"]) = 1
    /\ Len(files["b"]) = 1
    /\ last.op = "info"

\* C22: every channel marked as overridden has its level in the table of
\* overrides and in the configuration file.
C22_OverriddenPersisted ==
    \A n \in DOMAIN loggers :
        loggers[n].level_is_overridden =>
            /\ n \in DOMAIN level_overrides
            /\ level_overrides[n] = loggers[n].level
            /\ <<n, loggers[n].level>> \in config.text

\* The names of the entries of the last listing after its first entry.
ListedNames == {result[i][1] : i \in 2 .. Len(result)}

\* The categories of the registered names.
Categories == {CategoryOf(n) : n \in DOMAIN loggers}

\* C23 as stated: the list of channel names filtered by a category holds,
\* after "default", exactly the channels of that category.
C23_FilterByCategory ==
    last.op = "get_loggers_list_as_property_enum"
    /\ last.name \in Categories =>
        ListedNames = {n \in DOMAIN loggers : CategoryOf(n) = last.name}

\* C23 amended: the list of channel names filtered by a category holds,
\* after "default", exactly the channels whose name begins with the
\* category; these are all channels of the category and the channels of
\* any longer category that begins with it.
C23_FilterByCategoryPrefix ==
    last.op = "get_loggers_list_as_property_enum"
    /\ last.name \in Categories =>
        /\ ListedNames = {n \in DOMAIN loggers : BeginsWith(n, last.name)}
        /\ {n \in DOMAIN loggers : CategoryOf(n) = last.name} \subseteq ListedNames
        /\ \A n \in ListedNames : BeginsWith(CategoryOf(n), last.name)

\* C23 witness: the filter "a" is a category and lists "ab", a channel of
\* the category "ab", next to "a.b".
C23_Witness ==
    /\ last.op = "get_loggers_list_as_property_enum"
    /\ last.name = "a"
    /\ "a" \in Categories
    /\ "ab" \in Categories
    /\ {"a.b", "ab"} \subseteq ListedNames

\* C24: when the threads that asked for the same new name have all
\* returned, one Logger has been constructed, all of them hold that one,
\* the channel file has been truncated once, and every line written to the
\* channel file is in it.
C24_OneChannelForAllThreads ==
    (\A t \in Threads : threads[t].pc = "done" /\ threads[t].name = "a") =>
        /\ next_id = 2
        /\ \A t, u \in Threads : threads[t].got = threads[u].got
        /\ truncs["a"] = 1
        /\ Len(files["a"]) = Len(printed)
====
